---- MODULE Spec2Model ----
(***************************************************************************)
(* A model of pyschism/forcing/nws/nws2/gfs2.py: the AWS GFS inventory     *)
(* (listing, key filter, slice, download, glob of the local files), the    *)
(* bounding-box window of modified_latlon, the per-file field extraction   *)
(* and assembly of gen_sflux, and the per-day fan-out of GFS.__init__.     *)
(*                                                                         *)
(* Object keys and file names are strings; Python's substring test         *)
(* ('0p25' in key), sorted() and glob are computed on their characters, as *)
(* the code computes them.                                                 *)
(***************************************************************************)
EXTENDS Integers, Sequences, FiniteSets, TLC

VARIABLES
    pc,             \* position of the run (of one gen_sflux call, or of the pool)
    listing,        \* the keys the paginator returns (page['Contents'] of all pages)
    listFails,      \* the listing call raises
    record,         \* AWSGrib2Inventory.record
    bbox,           \* GFS.bbox: [xmin, xmax, ymin, ymax], degrees
    file_metadata,  \* the filtered, sorted key list (line 49)
    nkey,           \* number of keys of the slice the download loop has handled
    tmpfiles,       \* the scratch directory: local file name -> "full" | "empty"
    grbfiles,       \* inventory.files as read by gen_sflux (line 113)
    win,            \* [idx_ymin, idx_ymax, idx_xmin, idx_xmax] or NoWin
    lon,            \* 2-D longitude grid returned by modified_latlon
    lat,            \* 2-D latitude grid returned by modified_latlon
    ifile,          \* number of files the extraction loop has completed
    series,         \* the eight per-variable lists (stmp, spfh, ...)
    fout,           \* the output file written by to_netcdf, or NoFile
    err,            \* the exception that ended the call, or "none"
    pool            \* the state of GFS.__init__'s worker pool

vars == <<pc, listing, listFails, record, bbox, file_metadata, nkey, tmpfiles,
          grbfiles, win, lon, lat, ifile, series, fout, err, pool>>

(***************************************************************************)
(* Bounds of the model.                                                    *)
(***************************************************************************)
MaxHour == 25       \* largest forecast hour a listing holds
MaxRecord == 1      \* largest value of record
MaxFailPos == 4     \* only the first MaxFailPos downloads of a run may fail
MaxDays == 5        \* most days of one GFS.__init__ call
MaxCpu == 2         \* largest mp.cpu_count()

(***************************************************************************)
(* Characters and strings.                                                 *)
(***************************************************************************)
Digits == <<"0", "1", "2", "3", "4", "5", "6", "7", "8", "9">>
Letters == <<"a", "b", "c", "d", "e", "f", "g", "h", "i", "j", "k", "l", "m",
             "n", "o", "p", "q", "r", "s", "t", "u", "v", "w", "x", "y", "z">>

\* The code point of a character (Python compares str by code point).
Ord(c) ==
    IF c = "." THEN 46
    ELSE IF c = "/" THEN 47
    ELSE IF c = "_" THEN 95
    ELSE IF \E i \in 1..10 : Digits[i] = c
         THEN 47 + (CHOOSE i \in 1..10 : Digits[i] = c)
         ELSE 96 + (CHOOSE i \in 1..26 : Letters[i] = c)

\* s[i - 1] of Python: the i-th character
At(s, i) == SubSeq(s, i, i)

RECURSIVE LexLessFrom(_, _, _)
LexLessFrom(a, b, i) ==
    IF i > Len(a) THEN i <= Len(b)
    ELSE IF i > Len(b) THEN FALSE
    ELSE IF At(a, i) = At(b, i) THEN LexLessFrom(a, b, i + 1)
    ELSE Ord(At(a, i)) < Ord(At(b, i))

\* a < b for Python str
LexLess(a, b) == LexLessFrom(a, b, 1)

\* tag in key
Contains(tag, key) ==
    \E i \in 0..(Len(key) - Len(tag)) : SubSeq(key, i + 1, i + Len(tag)) = tag

StartsWith(s, p) == Len(p) <= Len(s) /\ SubSeq(s, 1, Len(p)) = p
EndsWith(s, p) == Len(p) <= Len(s) /\ SubSeq(s, Len(s) - Len(p) + 1, Len(s)) = p

\* f'{n:02d}' and the three-digit hour of a GFS file name
Pad2(n) == Digits[((n \div 10) % 10) + 1] \o Digits[(n % 10) + 1]
Pad3(n) == Digits[((n \div 100) % 10) + 1] \o Pad2(n)

\* sorted(S) for a set of strings
RECURSIVE SortedKeys(_)
SortedKeys(S) ==
    IF S = {} THEN <<>>
    ELSE LET m == CHOOSE x \in S : \A y \in S \ {x} : LexLess(x, y)
         IN <<m>> \o SortedKeys(S \ {m})

\* s[lo:hi] of Python for 0 <= lo, 0 <= hi
Slice(s, lo, hi) == SubSeq(s, lo + 1, IF hi < Len(s) THEN hi ELSE Len(s))

(***************************************************************************)
(* The forecast cycle of the modelled day and the names built from it.     *)
(***************************************************************************)
CycleYmd == "20230101"       \* strftime("%Y%m%d")
CycleHour == 0              \* start_date.hour
Product == "atmos"

\* Prefix of the listing (lines 41-42): gfs.YYYYMMDD/HH/atmos/
Prefix ==
    "gfs." \o CycleYmd \o "/" \o Pad2(CycleHour)
        \o "/" \o Product \o "/"

\* gfs.tHHz.
Stem == "gfs.t" \o Pad2(CycleHour) \o "z."

Tag0p25 == "0p25"
TagPgrb2 == "pgrb2"
TagGoessim == "goessim"
TagAnl == "anl"
TagIdx == "idx"
SuffixGrib2 == ".grib2"

\* the part of the glob pattern of `files` before the *: .../gfs.tHHz.pgrb2.0p25.f
GlobHead == Prefix \o Stem \o TagPgrb2 \o "." \o Tag0p25 \o ".f"

\* The remote key of the per-hour file of forecast hour h.
HourKey(h) == GlobHead \o Pad3(h)

AnlKey == Prefix \o Stem \o TagPgrb2 \o "." \o Tag0p25 \o "." \o TagAnl
IdxKey(h) == HourKey(h) \o "." \o TagIdx
GoessimKey ==
    Prefix \o Stem \o TagGoessim \o TagPgrb2 \o "." \o Tag0p25 \o ".f" \o Pad3(0)
\* the 1.00-degree product
Pgrb2OneDegKey ==
    Prefix \o Stem \o TagPgrb2 \o ".1p00.f" \o Pad3(0)
\* the secondary 0.25-degree product (pgrb2b)
Pgrb2bKey(h) ==
    Prefix \o Stem \o TagPgrb2 \o "b." \o Tag0p25 \o ".f" \o Pad3(h)

OtherKeys == {AnlKey, IdxKey(1), GoessimKey, Pgrb2OneDegKey, Pgrb2bKey(0), Pgrb2bKey(1)}

\* The forecast hour a per-hour key or local file name carries (its fHHH field).
DigitVal(c) == (CHOOSE i \in 1..10 : Digits[i] = c) - 1
HourOf(name) ==
    LET p == Len(GlobHead)
    IN 100 * DigitVal(At(name, p + 1)) + 10 * DigitVal(At(name, p + 2))
        + DigitVal(At(name, p + 3))

(***************************************************************************)
(* AWSGrib2Inventory.__init__, lines 44-52: filter, sort, slice.           *)
(***************************************************************************)
HoursPerRecord == 24

KeepKey(key) ==
    /\ Contains(Tag0p25, key)
    /\ Contains(TagPgrb2, key)
    /\ ~Contains(TagGoessim, key)
    /\ ~Contains(TagAnl, key)
    /\ ~Contains(TagIdx, key)

FileMetadata(data) == SortedKeys({k \in data : KeepKey(k)})

\* a slice that keeps the first entry: file_metadata[0:self.record*24]
SelectedFromZero(meta, rec) == Slice(meta, 0, rec * HoursPerRecord)

\* file_metadata[1:self.record*24+1]
Selected(meta, rec) == Slice(meta, 1, rec * HoursPerRecord + 1)

(***************************************************************************)
(* AWSGrib2Inventory.files, lines 83-87: glob of the scratch directory.    *)
(***************************************************************************)
\* key2 = key + '.grib2' (line 53); the name is relative to tmpdir
LocalName(key) == key \o SuffixGrib2

\* fnmatch of tmpdir/gfs.YYYYMMDD/HH/atmos/gfs.tHHz.pgrb2.0p25.f*.grib2:
\* the * matches any run of characters without a path separator.
GlobMatch(name) ==
    /\ Len(name) >= Len(GlobHead) + Len(SuffixGrib2)
    /\ StartsWith(name, GlobHead)
    /\ EndsWith(name, SuffixGrib2)
    /\ \A i \in (Len(GlobHead) + 1)..(Len(name) - Len(SuffixGrib2)) : At(name, i) # "/"

Files(dir) == SortedKeys({n \in DOMAIN dir : GlobMatch(n)})

(***************************************************************************)
(* The native grid of the decoded files: the longitude axis ascends over   *)
(* [0, 360), the latitude axis descends from 90 to -90. One degree per     *)
(* cell here; indices are 0-based as in numpy.                             *)
(***************************************************************************)
NativeLon == [i \in 1..360 |-> i - 1]
NativeLat == [i \in 1..181 |-> 91 - i]

\* np.where(cond)[0]: the 0-based indices whose value satisfies the test, ascending
Where(axis, lo, hi) ==
    LET Hit(i) == axis[i + 1] >= lo /\ axis[i + 1] <= hi
    IN SelectSeq([i \in 1..Len(axis) |-> i - 1], Hit)

Reverse(s) == [i \in 1..Len(s) |-> s[Len(s) + 1 - i]]

(***************************************************************************)
(* GFS.modified_latlon, lines 264-290.                                     *)
(***************************************************************************)
Pad == 1
FullTurn == 360
HalfTurn == 180

\* a normalization that shifts every longitude
NormLonAlways(x) == x + FullTurn

\* lines 266-267
NormLon(x) == IF x < 0 THEN x + FullTurn ELSE x

\* a re-expression that also moves 180 itself
WrapLonFromHalf(x) == IF x >= HalfTurn THEN x - FullTurn ELSE x

\* lines 282-283
WrapLon(x) == IF x > HalfTurn THEN x - FullTurn ELSE x

\* line 286: np.meshgrid(lon2, lat2[::-1]) returns (X, Y), both of shape
\* (len(lat2), len(lon2))
MeshX(lon2, lat2r) == [i \in 1..Len(lat2r) |-> [j \in 1..Len(lon2) |-> lon2[j]]]
MeshY(lon2, lat2r) == [i \in 1..Len(lat2r) |-> [j \in 1..Len(lon2) |-> lat2r[i]]]

\* The value modified_latlon returns, or [ok |-> FALSE] when lat_idxs[0] or
\* lon_idxs[0] raises IndexError on an empty index array.
ModifiedLatlon(b, nlon, nlat) ==
    LET xmin == NormLon(b.xmin)
        xmax == NormLon(b.xmax)
        lon_idxs == Where(nlon, xmin - Pad, xmax + Pad)
        lat_idxs == Where(nlat, b.ymin - Pad, b.ymax + Pad)
        lon2 == [k \in 1..Len(lon_idxs) |-> WrapLon(nlon[lon_idxs[k] + 1])]
        lat2 == [k \in 1..Len(lat_idxs) |-> nlat[lat_idxs[k] + 1]]
    IN  IF lat_idxs = <<>> \/ lon_idxs = <<>>
        THEN [ok |-> FALSE]
        ELSE [ok |-> TRUE,
              idx_ymin |-> lat_idxs[1],
              idx_ymax |-> lat_idxs[Len(lat_idxs)],
              idx_xmin |-> lon_idxs[1],
              idx_xmax |-> lon_idxs[Len(lon_idxs)],
              lon |-> MeshX(lon2, Reverse(lat2)),
              lat |-> MeshY(lon2, Reverse(lat2))]

(***************************************************************************)
(* GFS.gen_sflux, lines 110-261.                                           *)
(***************************************************************************)
\* The output variables in the order the loop of lines 142-177 appends to
\* them, each with the GRIB short name it is read from (Vars, lines 128-134).
OutVars == <<"spfh", "stmp", "uwind", "vwind", "prmsl", "prate", "dlwrf", "dswrf">>
GribName == <<"sh2", "t2m", "u10", "v10", "prmsl", "prate", "dlwrf", "dswrf">>
VarSet == {OutVars[k] : k \in 1..Len(OutVars)}

\* What the decoder returns for a field of the file of forecast hour h: the
\* global 2-D array, whose cell (r, c) is named by the file, the field, the
\* native latitude row and the native longitude column it comes from.
Cell(h, g, r, c) == <<h, g, r, c>>

\* ds[key2][idx_ymin:idx_ymax+1, idx_xmin:idx_xmax+1] (lines 148, 157, 166, 175)
WindowOf(h, g, w) ==
    [i \in 1..(w.idx_ymax + 1 - w.idx_ymin) |->
        [j \in 1..(w.idx_xmax + 1 - w.idx_xmin) |->
            Cell(h, g, w.idx_ymin + i - 1, w.idx_xmin + j - 1)]]

\* a slice whose rows are left in native order
FlipRowsNot(a) == a

\* tmp[::-1, :] (lines 149, 158, 167, 176)
FlipRows(a) == Reverse(a)

\* the slice a file contributes to the k-th variable
FieldSlice(name, k, w) == FlipRows(WindowOf(HourOf(name), GribName[k], w))

\* np.round(x, 4) of num/den, in units of 1e-4 (round half to even)
Round4(num, den) ==
    LET n == num * 10000
        q == n \div den
        r == n % den
    IN  IF 2 * r < den THEN q
        ELSE IF 2 * r > den THEN q + 1
        ELSE IF q % 2 = 0 THEN q ELSE q + 1

\* a time axis that starts at 0: np.arange(0, len(grbfiles))
TimeCoordFromZero(n) == [h \in 1..n |-> Round4(h - 1, HoursPerRecord)]

\* line 189: np.round(np.arange(1, len(grbfiles)+1)/24, 4)
TimeCoord(n) == [h \in 1..n |-> Round4(h, HoursPerRecord)]

\* line 261: <YYYYMMDD>/gfs_<YYYYMMDD><HH>.nc
OutPath ==
    CycleYmd \o "/gfs_" \o CycleYmd \o Pad2(CycleHour)
        \o ".nc"

NoWin == [ok |-> FALSE]
NoFile == [written |-> FALSE]
EmptySeries == [v \in VarSet |-> <<>>]
NoPool == [on |-> FALSE]

\* the series after the first n variables got the slice of file `name`
Appended(ser, name, n, w) ==
    [v \in VarSet |->
        IF \E k \in 1..n : OutVars[k] = v
        THEN Append(ser[v], FieldSlice(name, CHOOSE k \in 1..n : OutVars[k] = v, w))
        ELSE ser[v]]

\* lines 179-192 and 261: the dataset handed to to_netcdf
Dataset(ser, files, x, y) ==
    [written |-> TRUE,
     path |-> OutPath,
     time |-> TimeCoord(Len(files)),
     data |-> ser,
     lon |-> x,
     lat |-> y]

(***************************************************************************)
(* One gen_sflux call, as steps.                                           *)
(***************************************************************************)
\* The keys the download loop of line 52 iterates over.
Slice52 == Selected(file_metadata, record)

\* Lines 39-50: list the prefix, then filter and sort. An empty listing has
\* no 'Contents' in its page, and page['Contents'] raises KeyError.
ListObjects ==
    /\ pc = "list"
    /\ IF listFails \/ listing = {}
       THEN /\ pc' = "failed"
            /\ err' = (IF listFails THEN "ClientError" ELSE "KeyError")
            /\ UNCHANGED file_metadata
       ELSE /\ pc' = "download"
            /\ file_metadata' = FileMetadata(listing)
            /\ UNCHANGED err
    /\ UNCHANGED <<listing, listFails, record, bbox, nkey, tmpfiles, grbfiles,
                   win, lon, lat, ifile, series, fout, pool>>

\* Lines 52-62, one key: open(filename, 'wb') creates the file, and
\* download_fileobj fills it or raises; the except clause only logs.
DownloadResult(ok) == IF ok THEN "full" ELSE "empty"

Download ==
    /\ pc = "download"
    /\ nkey < Len(Slice52)
    /\ \E ok \in BOOLEAN :
        /\ ok \/ nkey < MaxFailPos
        /\ LET filename == LocalName(Slice52[nkey + 1])
           IN tmpfiles' = [n \in DOMAIN tmpfiles \cup {filename} |->
                            IF n = filename THEN DownloadResult(ok) ELSE tmpfiles[n]]
    /\ nkey' = nkey + 1
    /\ UNCHANGED <<pc, listing, listFails, record, bbox, file_metadata, grbfiles,
                   win, lon, lat, ifile, series, fout, err, pool>>

\* Line 113: inventory.files, once the constructor has returned.
ReadFiles ==
    /\ pc = "download"
    /\ nkey = Len(Slice52)
    /\ grbfiles' = Files(tmpfiles)
    /\ pc' = "latlon"
    /\ UNCHANGED <<listing, listFails, record, bbox, file_metadata, nkey, tmpfiles,
                   win, lon, lat, ifile, series, fout, err, pool>>

\* Line 137: modified_latlon(grbfiles[0]). grbfiles[0] raises on an empty
\* list, the decoder raises on a file it cannot read, and the function raises
\* on an empty index array.
LatLon ==
    /\ pc = "latlon"
    /\ \E decoded \in BOOLEAN :
        LET res == ModifiedLatlon(bbox, NativeLon, NativeLat)
        IN  IF grbfiles = <<>>
            THEN /\ pc' = "failed" /\ err' = "IndexError"
                 /\ UNCHANGED <<win, lon, lat>>
            ELSE IF tmpfiles[grbfiles[1]] # "full" \/ ~decoded
            THEN /\ pc' = "failed" /\ err' = "DecodeError"
                 /\ UNCHANGED <<win, lon, lat>>
            ELSE IF ~res.ok
            THEN /\ pc' = "failed" /\ err' = "IndexError"
                 /\ UNCHANGED <<win, lon, lat>>
            ELSE /\ pc' = "extract"
                 /\ win' = [ok |-> TRUE,
                            idx_ymin |-> res.idx_ymin, idx_ymax |-> res.idx_ymax,
                            idx_xmin |-> res.idx_xmin, idx_xmax |-> res.idx_xmax]
                 /\ lon' = res.lon
                 /\ lat' = res.lat
                 /\ UNCHANGED err
    /\ UNCHANGED <<listing, listFails, record, bbox, file_metadata, nkey, tmpfiles,
                   grbfiles, ifile, series, fout, pool>>

\* a loop that goes on after a decode raised
ExtractPcSwallow(n) == "extract"

\* where the call stands after n of the variables of a file were decoded: an
\* exception of the decoder is not caught, so the call ends unless all were
ExtractPc(n) == IF n = Len(OutVars) THEN "extract" ELSE "failed"

Extract ==
    /\ pc = "extract"
    /\ ifile < Len(grbfiles)
    /\ LET file == grbfiles[ifile + 1]
       IN \E n \in 0..Len(OutVars) :
            /\ tmpfiles[file] = "empty" => n = 0
            /\ series' = Appended(series, file, n, win)
            /\ pc' = ExtractPc(n)
            /\ ifile' = IF ExtractPc(n) = "extract" THEN ifile + 1 ELSE ifile
            /\ err' = IF ExtractPc(n) = "extract" THEN err ELSE "DecodeError"
    /\ UNCHANGED <<listing, listFails, record, bbox, file_metadata, nkey, tmpfiles,
                   grbfiles, win, lon, lat, fout, pool>>

\* Lines 179-261: build the dataset and write it.
WriteNetcdf ==
    /\ pc = "extract"
    /\ ifile = Len(grbfiles)
    /\ fout' = Dataset(series, grbfiles, lon, lat)
    /\ pc' = "done"
    /\ UNCHANGED <<listing, listFails, record, bbox, file_metadata, nkey, tmpfiles,
                   grbfiles, win, lon, lat, ifile, series, err, pool>>

Next == ListObjects \/ Download \/ ReadFiles \/ LatLon \/ Extract \/ WriteNetcdf

(***************************************************************************)
(* The inputs of one gen_sflux call.                                       *)
(***************************************************************************)
HourKeys(n) == {HourKey(h) : h \in 0..n}

Box(x0, x1, y0, y1) == [xmin |-> x0, xmax |-> x1, ymin |-> y0, ymax |-> y1]

\* hours 0..n, possibly with one hour missing, with or without the other
\* products of the directory; and long listings that exceed the slice
ShortHours == 3
Listings ==
    {{}}
    \cup {(HourKeys(n) \ gap) \cup other :
            n \in 0..ShortHours,
            gap \in {{}} \cup {{HourKey(h)} : h \in 0..ShortHours},
            other \in {{}, OtherKeys}}
    \cup {HourKeys(MaxHour) \cup other : other \in {{}, {Pgrb2bKey(0)}}}
    \cup {HourKeys(MaxHour) \ {HourKey(2)}}

\* a point box west of Greenwich, a box at the north-east corner of the
\* grid, a box in the south-east, and a box across the Greenwich meridian
Boxes ==
    {Box(-97, -97, 30, 30), Box(179, 180, 89, 90), Box(10, 12, -45, -44),
     Box(-1, 1, 0, 0)}

Init ==
    /\ pc = "list"
    /\ listing \in Listings
    /\ listFails \in BOOLEAN
    /\ record \in 1..MaxRecord
    /\ bbox \in Boxes
    /\ file_metadata = <<>>
    /\ nkey = 0
    /\ tmpfiles = <<>>
    /\ grbfiles = <<>>
    /\ win = NoWin
    /\ lon = <<>>
    /\ lat = <<>>
    /\ ifile = 0
    /\ series = EmptySeries
    /\ fout = NoFile
    /\ err = "none"
    /\ pool = NoPool

Spec == Init /\ [][Next]_vars

(***************************************************************************)
(* The inventory alone: lines 39-52 on a wide family of listings.          *)
(***************************************************************************)
InvListings ==
    {HourKeys(n) \cup other : n \in 0..MaxHour, other \in SUBSET OtherKeys}

InitInv ==
    /\ pc = "list"
    /\ listing \in InvListings
    /\ listFails = FALSE
    /\ record \in 1..MaxRecord
    /\ bbox = Box(-97, -97, 30, 30)
    /\ file_metadata = <<>>
    /\ nkey = 0
    /\ tmpfiles = <<>>
    /\ grbfiles = <<>>
    /\ win = NoWin
    /\ lon = <<>>
    /\ lat = <<>>
    /\ ifile = 0
    /\ series = EmptySeries
    /\ fout = NoFile
    /\ err = "none"
    /\ pool = NoPool

SpecInv == InitInv /\ [][ListObjects]_vars

(***************************************************************************)
(* modified_latlon alone, on a wide family of bounding boxes: the call of  *)
(* line 137 after one file was downloaded.                                 *)
(***************************************************************************)
BoxLons == {-180, -179, -97, -1, 0, 1, 97, 179, 180, 263, 359}
BoxLats == {-90, -89, 0, 30, 89, 90}

LatLonBoxes ==
    {Box(x0, x1, y0, y1) : x0 \in BoxLons, x1 \in BoxLons,
                           y0 \in BoxLats, y1 \in {30, 90}}

InitLatLon ==
    /\ pc = "latlon"
    /\ listing = HourKeys(1)
    /\ listFails = FALSE
    /\ record = 1
    /\ bbox \in LatLonBoxes
    /\ file_metadata = FileMetadata(HourKeys(1))
    /\ nkey = 1
    /\ tmpfiles = [n \in {LocalName(HourKey(1))} |-> "full"]
    /\ grbfiles = <<LocalName(HourKey(1))>>
    /\ win = NoWin
    /\ lon = <<>>
    /\ lat = <<>>
    /\ ifile = 0
    /\ series = EmptySeries
    /\ fout = NoFile
    /\ err = "none"
    /\ pool = NoPool

SpecLatLon == InitLatLon /\ [][LatLon]_vars

(***************************************************************************)
(* Notions the properties below are stated with.                           *)
(***************************************************************************)
Range(f) == {f[i] : i \in DOMAIN f}

\* A key of a per-hour file of the primary 0.25-degree product: the files the
\* glob of `files` reads (gfs.tHHz.pgrb2.0p25.fHHH).
IsPrimary(key) ==
    /\ Len(key) = Len(GlobHead) + 3
    /\ StartsWith(key, GlobHead)
    /\ \A i \in (Len(GlobHead) + 1)..Len(key) : \E d \in 1..10 : Digits[d] = At(key, i)

PrimaryKeys(data) == {k \in data : IsPrimary(k)}
PrimaryHours(data) == {HourOf(k) : k \in PrimaryKeys(data)}

\* the primary per-hour files of the listing are exactly hours 0..N, for some N
HoursAreZeroToN(data) ==
    /\ PrimaryHours(data) # {}
    /\ \A h \in PrimaryHours(data) : \A g \in 0..h : g \in PrimaryHours(data)

LastHour(data) == CHOOSE h \in PrimaryHours(data) : \A g \in PrimaryHours(data) : g <= h

Min(a, b) == IF a < b THEN a ELSE b

\* the local files a failed download left behind
FailedFiles == {n \in DOMAIN tmpfiles : tmpfiles[n] = "empty"}

\* gen_sflux has read inventory.files
FilesRead == pc \in {"latlon", "extract", "done", "failed"} /\ file_metadata # <<>>

\* exactly one download failed, and it is neither the first nor the last of the slice
OneMidFailure ==
    /\ nkey = Len(Slice52)
    /\ Cardinality(FailedFiles) = 1
    /\ \E i \in 2..(Len(Slice52) - 1) : LocalName(Slice52[i]) \in FailedFiles

Rows(a) == Len(a)
Cols(a) == IF Len(a) = 0 THEN 0 ELSE Len(a[1])

\* C1: when exactly one mid-sequence download fails, the file of that hour is
\* absent from `files`, the call does not fail on it, and the output has one
\* time step less than the number of keys selected for download.
C1_MissingHourAbsent ==
    (FilesRead /\ OneMidFailure) =>
        /\ FailedFiles \cap Range(grbfiles) = {}
        /\ ~(pc = "failed" /\ ifile < Len(grbfiles)
                /\ grbfiles[ifile + 1] \in FailedFiles)
        /\ pc = "done" => Len(fout.time) = Len(Slice52) - 1

\* C2: when the primary per-hour files of the listing are hours 0..N, the keys
\* selected for download are hours 1, 2, ..., min(N, record*24), in this order.
C2_SliceIsHoursFromOne ==
    (pc = "download" /\ HoursAreZeroToN(listing)) =>
        LET n == Min(LastHour(listing), record * HoursPerRecord)
        IN  /\ Len(Slice52) = n
            /\ \A k \in 1..Len(Slice52) : Slice52[k] = HourKey(k)

\* C3: the filtered and sorted key list holds the primary per-hour files of
\* the listing, all of them and nothing else, in ascending lexical order,
\* which is ascending forecast-hour order.
C3_OnlyPrimarySorted ==
    pc = "download" =>
        /\ Range(file_metadata) = PrimaryKeys(listing)
        /\ \A i \in 1..Len(file_metadata) : \A j \in 1..Len(file_metadata) :
              i < j => /\ LexLess(file_metadata[i], file_metadata[j])
                       /\ IsPrimary(file_metadata[i]) /\ IsPrimary(file_metadata[j])
                            => HourOf(file_metadata[i]) < HourOf(file_metadata[j])

\* C4: the written dataset has, for each of the eight variables, one slice
\* per processed file, of the shape of the window, in the order of the file
\* list; the time coordinate has one entry per file, the h-th being h/24
\* rounded to 4 decimals (in units of 1e-4: the nearest integer to 10000h/24).
C4_ShapeAndTime ==
    fout.written =>
        LET H == Len(grbfiles)
            Ny == win.idx_ymax - win.idx_ymin + 1
            Nx == win.idx_xmax - win.idx_xmin + 1
        IN  /\ H >= 1
            /\ DOMAIN fout.data = VarSet /\ Cardinality(VarSet) = 8
            /\ \A v \in VarSet :
                /\ Len(fout.data[v]) = H
                /\ \A k \in 1..H :
                    /\ Rows(fout.data[v][k]) = Ny
                    /\ \A i \in 1..Ny : Len(fout.data[v][k][i]) = Nx
                    /\ fout.data[v][k][1][1][1] = HourOf(grbfiles[k])
            /\ Len(fout.time) = H
            /\ \A h \in 1..H :
                 /\ 2 * (24 * fout.time[h] - 10000 * h) <= 24
                 /\ 2 * (10000 * h - 24 * fout.time[h]) <= 24

C4_Witness == fout.written /\ Len(grbfiles) >= 3 /\ Rows(lat) >= 3

\* C6: the latitude grid strictly increases with the row index, and every
\* slice of every variable has the shape of the coordinate grids, its cell
\* (i, j) holding the native data of the latitude row whose latitude is
\* lat[i][j] and of the longitude column whose longitude is lon[i][j].
C6_RowsMatchLatitude ==
    win.ok =>
        /\ Rows(lat) = Rows(lon) /\ Cols(lat) = Cols(lon) /\ Rows(lat) >= 1
        /\ \A i \in 1..Rows(lat) : Len(lat[i]) = Cols(lat) /\ Len(lon[i]) = Cols(lat)
        /\ \A i \in 1..(Rows(lat) - 1) : \A j \in 1..Cols(lat) : lat[i][j] < lat[i + 1][j]
        /\ \A v \in VarSet : \A k \in 1..Len(series[v]) :
            LET a == series[v][k]
            IN  /\ Rows(a) = Rows(lat)
                /\ \A i \in 1..Rows(a) :
                    /\ Len(a[i]) = Cols(lat)
                    /\ \A j \in 1..Len(a[i]) :
                        /\ NativeLat[a[i][j][3] + 1] = lat[i][j]
                        /\ (NativeLon[a[i][j][4] + 1] - lon[i][j]) % 360 = 0
                        /\ a[i][j][1] = HourOf(grbfiles[k])

C6_Witness ==
    /\ fout.written /\ Len(grbfiles) >= 2
    /\ Rows(lat) >= 3 /\ Cols(lat) >= 3
    /\ lat[1][1] < lat[Rows(lat)][1]

\* C7: a dataset is written only at the end of a call whose listing worked,
\* whose file list is not empty and all of whose files were decoded for all
\* eight variables; a call that failed has written nothing, and a failed
\* listing, an empty file list or an undecodable file ends the call in failure.
C7_WriteOnlyWhenComplete ==
    /\ fout.written =>
        /\ pc = "done"
        /\ ~listFails /\ listing # {}
        /\ grbfiles # <<>>
        /\ ifile = Len(grbfiles)
        /\ \A k \in 1..Len(grbfiles) : tmpfiles[grbfiles[k]] = "full"
        /\ \A v \in VarSet : Len(fout.data[v]) = Len(grbfiles)
    /\ pc = "failed" => ~fout.written
    /\ (listFails /\ pc # "list") => pc = "failed"
    /\ (pc \in {"extract", "done"}) => grbfiles # <<>>
    /\ pc = "extract" => \A v \in VarSet : Len(series[v]) = ifile

C7_Witness ==
    /\ pc = "failed" /\ ifile >= 1
    /\ Len(series["spfh"]) = ifile + 1 /\ Len(series["dswrf"]) = ifile
    /\ ~fout.written

\* C9 as stated: for any listing, the k-th processed file of a written
\* dataset is the file of forecast hour k, so that time[k] is its hour / 24.
C9_TimeIsForecastHour ==
    fout.written =>
        \A k \in 1..Len(grbfiles) :
            /\ HourOf(grbfiles[k]) = k
            /\ fout.time[k] = Round4(HourOf(grbfiles[k]), 24)

\* no key the filter keeps, other than the primary per-hour files, sorts
\* before one of them
OthersSortLast(data) ==
    \A k \in data : (KeepKey(k) /\ ~IsPrimary(k)) =>
        \A q \in PrimaryKeys(data) : LexLess(q, k)

\* C9 amended: it holds when the primary per-hour files of the listing are
\* the hours 0..N with none missing and no other kept key sorts before them.
C9_TimeIsForecastHourIfNoGap ==
    (fout.written /\ HoursAreZeroToN(listing) /\ OthersSortLast(listing)) =>
        \A k \in 1..Len(grbfiles) :
            /\ HourOf(grbfiles[k]) = k
            /\ fout.time[k] = Round4(HourOf(grbfiles[k]), 24)

C9_Witness ==
    /\ fout.written /\ HoursAreZeroToN(listing) /\ OthersSortLast(listing)
    /\ Len(grbfiles) >= 3
    /\ HourOf(grbfiles[3]) = 3

\* C5: every longitude of the output grid lies in (-180, 180], and the window
\* of a box is the window of the box whose negative longitudes are replaced
\* by their value + 360.
C5_LonRangeAndShiftedBox ==
    win.ok =>
        /\ \A i \in 1..Rows(lon) : \A j \in 1..Len(lon[i]) :
              lon[i][j] > -180 /\ lon[i][j] <= 180
        /\ LET x0 == IF bbox.xmin < 0 THEN bbox.xmin + 360 ELSE bbox.xmin
               x1 == IF bbox.xmax < 0 THEN bbox.xmax + 360 ELSE bbox.xmax
               r == ModifiedLatlon(Box(x0, x1, bbox.ymin, bbox.ymax), NativeLon, NativeLat)
           IN  /\ r.ok
               /\ win.idx_ymin = r.idx_ymin /\ win.idx_ymax = r.idx_ymax
               /\ win.idx_xmin = r.idx_xmin /\ win.idx_xmax = r.idx_xmax

C5_Witness ==
    /\ win.ok /\ bbox.xmin = -97 /\ bbox.xmax = -1
    /\ win.idx_xmin = 262 /\ win.idx_xmax = 359
    /\ lon[1][1] = -98 /\ lon[1][Cols(lon)] = -1

\* a box with -180 <= xmin <= xmax <= 180 and ymin <= ymax inside the grid
BoxInRange ==
    /\ -180 <= bbox.xmin /\ bbox.xmin <= bbox.xmax /\ bbox.xmax <= 180
    /\ -90 <= bbox.ymin /\ bbox.ymin <= bbox.ymax /\ bbox.ymax <= 90

\* the normalized box is ordered, the window exists, its longitude indices
\* are one contiguous range, and every native column whose longitude, taken
\* in [-180, 180], lies in [xmin, xmax] is in it
WindowCoversBox ==
    /\ (IF bbox.xmin < 0 THEN bbox.xmin + 360 ELSE bbox.xmin)
          <= (IF bbox.xmax < 0 THEN bbox.xmax + 360 ELSE bbox.xmax)
    /\ win.ok
    /\ win.idx_xmin <= win.idx_xmax
    /\ Cols(lon) = win.idx_xmax - win.idx_xmin + 1
    /\ \A c \in 0..(Len(NativeLon) - 1) :
          LET v == NativeLon[c + 1]
          IN  (\/ (bbox.xmin <= v /\ v <= bbox.xmax)
               \/ (bbox.xmin <= v - 360 /\ v - 360 <= bbox.xmax))
              => (win.idx_xmin <= c /\ c <= win.idx_xmax)

\* modified_latlon has returned or raised, and the decoder did not fail
LatLonRan == pc \in {"extract", "failed"} /\ err # "DecodeError"

\* C10 as stated: for every box in range the window covers the box.
C10_WindowCoversEveryBox == (LatLonRan /\ BoxInRange) => WindowCoversBox

\* C10 amended: it holds for the boxes in range whose xmin and xmax are both
\* negative or both non-negative.
C10_WindowCoversSameSignBox ==
    (LatLonRan /\ BoxInRange /\ ((bbox.xmin < 0) <=> (bbox.xmax < 0)))
        => WindowCoversBox

C10_Witness ==
    /\ LatLonRan /\ BoxInRange
    /\ bbox.xmin = -179 /\ bbox.xmax = -97
    /\ WindowCoversBox
    /\ win.idx_xmin = 180 /\ win.idx_xmax = 264

(***************************************************************************)
(* GFS.__init__, lines 96-108: one gen_sflux call per day, run by a        *)
(* multiprocessing pool. pool.starmap cuts the list of days into chunks of *)
(* ceil(len / (4 * npool)) consecutive days; a worker process runs the     *)
(* days of a chunk one after the other, and an exception of one of them    *)
(* ends the chunk. starmap returns when every chunk has ended and raises   *)
(* if one of them raised.                                                  *)
(***************************************************************************)
\* strftime("%Y%m%d") of the d-th day of the date vector (line 98)
DayYmd(d) == "202301" \o Pad2(d)

\* the output path of a day (lines 116 and 261)
DayOutPath(d) ==
    DayYmd(d) \o "/gfs_" \o DayYmd(d) \o Pad2(CycleHour)
        \o ".nc"

\* line 102
NPool(ndays, ncpu) == IF ndays < ncpu THEN ndays ELSE ncpu

\* chunksize of pool.starmap(func, iterable) (line 106)
ChunkSize(ndays, npool) ==
    IF ndays % (npool * 4) = 0 THEN ndays \div (npool * 4)
    ELSE (ndays \div (npool * 4)) + 1

\* the task batches: consecutive runs of `size` days
Chunks(ndays, size) ==
    [c \in 1..((ndays + size - 1) \div size) |->
        [k \in 1..Min(size, ndays - (c - 1) * size) |-> (c - 1) * size + k]]

\* names mkdtemp can give to a scratch directory (line 80)
DirNames == 1..(MaxCpu + 1)

Idle == [chunk |-> <<>>, day |-> 0, dir |-> 0]

InitPool ==
    /\ pc = "pool"
    /\ \E ndays \in 1..MaxDays, ncpu \in 1..MaxCpu, bad \in SUBSET (1..MaxDays) :
        /\ bad \subseteq 1..ndays
        /\ pool = [on |-> TRUE,
                   ndays |-> ndays,
                   bad |-> bad,
                   queue |-> Chunks(ndays, ChunkSize(ndays, NPool(ndays, ncpu))),
                   work |-> [w \in 1..NPool(ndays, ncpu) |-> Idle],
                   dirs |-> {},
                   out |-> {},
                   ended |-> {},
                   raised |-> FALSE]
    /\ listing = {}
    /\ listFails = FALSE
    /\ record = 1
    /\ bbox = Box(-97, -97, 30, 30)
    /\ file_metadata = <<>>
    /\ nkey = 0
    /\ tmpfiles = <<>>
    /\ grbfiles = <<>>
    /\ win = NoWin
    /\ lon = <<>>
    /\ lat = <<>>
    /\ ifile = 0
    /\ series = EmptySeries
    /\ fout = NoFile
    /\ err = "none"

PoolUnchanged ==
    UNCHANGED <<listing, listFails, record, bbox, file_metadata, nkey, tmpfiles,
                grbfiles, win, lon, lat, ifile, series, fout, err>>

\* a worker process takes the next chunk from the task queue
TakeChunk(w) ==
    /\ pc = "pool"
    /\ pool.work[w] = Idle
    /\ pool.queue # <<>>
    /\ pool' = [pool EXCEPT !.queue = Tail(@),
                            !.work[w] = [Idle EXCEPT !.chunk = Head(pool.queue)]]
    /\ pc' = pc
    /\ PoolUnchanged

\* gen_sflux of the next day of the chunk begins; its inventory creates a
\* scratch directory of a name no existing directory has (a call whose
\* listing raises ends before it creates one)
StartDay(w) ==
    /\ pc = "pool"
    /\ pool.work[w].chunk # <<>>
    /\ pool.work[w].day = 0
    /\ LET d == Head(pool.work[w].chunk)
       IN \/ \E n \in DirNames \ pool.dirs :
                pool' = [pool EXCEPT !.work[w].day = d,
                                     !.work[w].dir = n,
                                     !.dirs = @ \cup {n}]
          \/ /\ d \in pool.bad
             /\ pool' = [pool EXCEPT !.work[w].day = d]
    /\ pc' = pc
    /\ PoolUnchanged

\* the tasks of a chunk left to run after its day d has ended
RestOfChunk(chunk, failed) == IF failed THEN <<>> ELSE Tail(chunk)

\* gen_sflux of the day ends: it has written its output file, or raised; the
\* scratch directory goes with the inventory object
EndDay(w) ==
    /\ pc = "pool"
    /\ pool.work[w].day # 0
    /\ LET d == pool.work[w].day
           failed == d \in pool.bad
       IN pool' = [pool EXCEPT
                    !.work[w] = [Idle EXCEPT
                                   !.chunk = RestOfChunk(pool.work[w].chunk, failed)],
                    !.dirs = @ \ {pool.work[w].dir},
                    !.out = IF failed THEN @ ELSE @ \cup {DayOutPath(d)},
                    !.ended = @ \cup {d},
                    !.raised = @ \/ failed]
    /\ pc' = pc
    /\ PoolUnchanged

\* every chunk has ended: starmap returns, or raises the first exception
Join ==
    /\ pc = "pool"
    /\ pool.queue = <<>>
    /\ \A w \in DOMAIN pool.work : pool.work[w] = Idle
    /\ pc' = IF pool.raised THEN "pool_raised" ELSE "pool_done"
    /\ UNCHANGED pool
    /\ PoolUnchanged

NextPool ==
    \/ \E w \in DOMAIN pool.work : TakeChunk(w)
    \/ \E w \in DOMAIN pool.work : StartDay(w)
    \/ \E w \in DOMAIN pool.work : EndDay(w)
    \/ Join

SpecPool == InitPool /\ [][NextPool]_vars

\* C8: two days running at the same time never use the same scratch
\* directory, no two days have the same output path, and when the pool has
\* ended every day whose own call did not fail has its output file.
C8_DaysAreIndependent ==
    pool.on =>
        /\ \A w1 \in DOMAIN pool.work : \A w2 \in DOMAIN pool.work :
              (w1 # w2 /\ pool.work[w1].dir # 0) => pool.work[w1].dir # pool.work[w2].dir
        /\ \A d1 \in 1..pool.ndays : \A d2 \in 1..pool.ndays :
              d1 # d2 => DayOutPath(d1) # DayOutPath(d2)
        /\ pc \in {"pool_done", "pool_raised"} =>
              \A d \in (1..pool.ndays) \ pool.bad : DayOutPath(d) \in pool.out

====
